---------------------------- MODULE Spec2Model ----------------------------
(***************************************************************************)
(* TransLingua: the Streamlit translation application (app.py) and the     *)
(* model discovery diagnostic (check_models.py).                           *)
(*                                                                         *)
(* Strings.  A text (the text area's content, a response's text) is a      *)
(* sequence of runs [ch, n]: n >= 1 copies of the character ch, so that a  *)
(* text of 30,001 characters is a value of the model.  len() and strip()   *)
(* are computed on the runs.  A failure description (str(e)) and a         *)
(* message are sequences of tokens: a description is spelled character by  *)
(* character, so that the test "429" in str(e) is a substring search; a    *)
(* literal of the source is one token.  The warning and cross signs the    *)
(* source writes in front of its messages are the tokens WARN and CROSS.   *)
(***************************************************************************)
EXTENDS Naturals, Sequences, FiniteSets, TLC

VARIABLES
    \* ---- app.py: the Streamlit session (render_ui) ----
    api_key,        \* os.getenv("GOOGLE_API_KEY") is set
    source_lang,    \* st.selectbox key="source_lang"
    target_lang,    \* st.selectbox key="target_lang"
    input_text,     \* st.text_area key="input_text"
    display,        \* what the translate branch of the last run rendered
    \* ---- app.py: translate_text, the call in progress ----
    pc,             \* "idle" | "translating"
    prompt,         \* local prompt
    model_idx,      \* index of model_name in models_to_try
    attempt,        \* local attempt of the inner loop
    last_error,     \* local last_error
    ret,            \* the tuple translate_text returned, NoRet before it returns
    \* ---- observations of the call in progress ----
    calls,          \* the generate_content calls made: [model, kind]
    sleeps,         \* the time.sleep calls made: [model, secs]
    last_raised,    \* description of the last failure generate_content raised
    resp_text,      \* response.text of the response line 168 returned from
    \* ---- validate_input applied to drawn inputs ----
    v_text, v_src, v_tgt, v_ret,
    \* ---- check_models.py ----
    d_pc,           \* "off" | "start" | "listing" | "done"
    d_remote,       \* the models genai.list_models() iterates over
    d_pos,          \* entries iterated so far
    d_error,        \* str(e) of the failure the listing raised, None if none
    d_file          \* the lines of models.txt

uiVars   == <<api_key, source_lang, target_lang, input_text, display>>
engVars  == <<pc, prompt, model_idx, attempt, last_error, ret>>
obsVars  == <<calls, sleeps, last_raised, resp_text>>
valVars  == <<v_text, v_src, v_tgt, v_ret>>
diagVars == <<d_pc, d_remote, d_pos, d_error, d_file>>
vars     == <<uiVars, engVars, obsVars, valVars, diagVars>>

---------------------------------------------------------------------------
(* Bounds of the model *)

\* runs in a text drawn for validate_input
MaxRuns == 2
\* language names drawn for validate_input: the first NumLangs selectable names
NumLangs == 3
\* entries in the listing the remote service returns to check_models.py
MaxModels == 2

---------------------------------------------------------------------------
(* Python values *)

\* None where a text is expected, and None where an exception, a description
\* or a message is expected (values comparable with the texts and the
\* token sequences they stand beside)
NoneText == <<[ch |-> "None", n |-> 0]>>
NoneErr  == <<"None">>
WARN    == "WARNING SIGN "
CROSS   == "CROSS MARK "

Chars == {" ", "a"}

\* str.isspace for one character
IsSpace(ch) == ch = " "

\* the texts of at most k runs whose run lengths are drawn from lens
TextsOf(k, lens) == UNION {[1..n -> [ch : Chars, n : lens]] : n \in 0..k}

\* len(text)
RECURSIVE StrLen(_)
StrLen(t) == IF t = <<>> THEN 0 ELSE Head(t).n + StrLen(Tail(t))

RECURSIVE LStrip(_)
LStrip(t) == IF t = <<>> THEN <<>>
             ELSE IF IsSpace(Head(t).ch) THEN LStrip(Tail(t)) ELSE t

RECURSIVE RStrip(_)
RStrip(t) == IF t = <<>> THEN <<>>
             ELSE IF IsSpace(t[Len(t)].ch) THEN RStrip(SubSeq(t, 1, Len(t) - 1)) ELSE t

\* text.strip()
Strip(t) == RStrip(LStrip(t))

\* bool(text) of a str or None
Truthy(t) == t # NoneText /\ t # <<>>

\* len(text.split()): the maximal groups of non-space characters
RECURSIVE WordCount(_)
WordCount(t) ==
    IF t = <<>> THEN 0
    ELSE IF IsSpace(Head(t).ch) THEN WordCount(Tail(t))
    ELSE IF Len(t) >= 2 /\ ~IsSpace(t[2].ch) THEN WordCount(Tail(t))
    ELSE 1 + WordCount(Tail(t))

\* sub in s, for token sequences
Contains(s, sub) ==
    \E i \in 1..(Len(s) + 1) :
        i + Len(sub) - 1 <= Len(s) /\ SubSeq(s, i, i + Len(sub) - 1) = sub

\* str(e) of an exception description, str(None) of None
Str(e) == IF e = NoneErr THEN <<"N", "o", "n", "e">> ELSE e

---------------------------------------------------------------------------
(* app.py section 2: the language catalog *)

PLACEHOLDER == "Select Language"

get_supported_languages ==
    <<"English", "Spanish", "French", "German", "Italian", "Portuguese",
      "Russian", "Japanese", "Korean", "Chinese (Simplified)",
      "Chinese (Traditional)", "Arabic", "Hindi", "Bengali", "Turkish",
      "Dutch", "Polish", "Swedish", "Norwegian", "Danish", "Finnish",
      "Greek", "Hebrew", "Thai", "Vietnamese", "Indonesian", "Malay",
      "Filipino", "Czech", "Slovak", "Hungarian", "Romanian", "Ukrainian",
      "Swahili", "Tamil", "Telugu", "Marathi", "Gujarati", "Kannada",
      "Malayalam", "Punjabi", "Urdu">>

\* language_names = ["Select Language"] + list(languages.keys())
language_names == <<PLACEHOLDER>> \o get_supported_languages

---------------------------------------------------------------------------
(* app.py section 5: validate_input *)

MAX_TEXT_LEN == 30000

MSG_NO_TEXT  == <<WARN, "Please enter some text to translate.">>
MSG_NO_SRC   == <<WARN, "Please select a source language.">>
MSG_NO_TGT   == <<WARN, "Please select a target language.">>
MSG_SAME     == <<WARN, "Source and target languages cannot be the same.">>
MSG_TOO_LONG == <<WARN, "Text is too long. Please limit to 30,000 characters.">>

Invalid(msg) == [is_valid |-> FALSE, error_message |-> msg]
Valid        == [is_valid |-> TRUE, error_message |-> NoneErr]

\* v_ret before validate_input is called, and once it returned out
NoVal == [called |-> FALSE, out |-> Valid]
Validated(out) == [called |-> TRUE, out |-> out]

validate_input_length_first(text, src, tgt) ==
    IF Truthy(text) /\ StrLen(text) > MAX_TEXT_LEN THEN Invalid(MSG_TOO_LONG)
    ELSE IF ~Truthy(text) \/ Strip(text) = <<>> THEN Invalid(MSG_NO_TEXT)
    ELSE IF src = PLACEHOLDER THEN Invalid(MSG_NO_SRC)
    ELSE IF tgt = PLACEHOLDER THEN Invalid(MSG_NO_TGT)
    ELSE IF src = tgt THEN Invalid(MSG_SAME)
    ELSE Valid

validate_input_no_length(text, src, tgt) ==
    IF ~Truthy(text) \/ Strip(text) = <<>> THEN Invalid(MSG_NO_TEXT)
    ELSE IF src = PLACEHOLDER THEN Invalid(MSG_NO_SRC)
    ELSE IF tgt = PLACEHOLDER THEN Invalid(MSG_NO_TGT)
    ELSE IF src = tgt THEN Invalid(MSG_SAME)
    ELSE Valid

validate_input(text, src, tgt) ==
    IF ~Truthy(text) \/ Strip(text) = <<>> THEN Invalid(MSG_NO_TEXT)
    ELSE IF src = PLACEHOLDER THEN Invalid(MSG_NO_SRC)
    ELSE IF tgt = PLACEHOLDER THEN Invalid(MSG_NO_TGT)
    ELSE IF src = tgt THEN Invalid(MSG_SAME)
    ELSE IF StrLen(text) > MAX_TEXT_LEN THEN Invalid(MSG_TOO_LONG)
    ELSE Valid

---------------------------------------------------------------------------
(* app.py section 3: create_translation_prompt *)

create_translation_prompt(text, src, tgt) ==
    <<"You are a professional translator with expertise in ", src, " and ", tgt,
      "Your task is to translate the following text from ", src, " to ", tgt,
      "TRANSLATION GUIDELINES:",
      "1. Maintain the original meaning and context",
      "2. Use natural, fluent language in the target language",
      "3. Preserve the tone and style of the original text",
      "4. Handle idioms and cultural expressions appropriately",
      "5. Ensure grammatical correctness",
      "6. Maintain any formatting (line breaks, spacing)",
      "7. Do NOT add explanations or notes, provide ONLY the translation",
      "SOURCE TEXT (", src, "):", text,
      "TRANSLATION (", tgt, "):">>

NoPrompt == <<>>

---------------------------------------------------------------------------
(* app.py section 4: translate_text *)

models_to_try ==
    <<"gemini-flash-latest", "gemini-pro-latest", "gemini-2.0-flash", "gemini-2.5-flash">>

max_retries == 3

\* The remote service: a generate_content call raises a failure with one of
\* these descriptions, or returns a response whose text is one of RespTexts
\* (the empty text included) or is absent.
E_QUOTA == <<"e", " ", "4", "2", "9", " ", "q">>
E_500   == <<"5", "0", "0">>
E_NEAR  == <<"4", "2", ".", "9">>
ErrDescs == {E_QUOTA, E_500, E_NEAR}

RespTexts == {<<>>,
              <<[ch |-> " ", n |-> 1]>>,
              <<[ch |-> "a", n |-> 1]>>,
              <<[ch |-> " ", n |-> 1], [ch |-> "a", n |-> 1], [ch |-> " ", n |-> 1]>>}

\* "429" in str(e)
Contains429(s) == Contains(s, <<"4", "2", "9">>)

RATE_LIMIT_MSG ==
    <<WARN, "System busy (Rate Limit). Please wait 30 seconds and try again.">>
GENERIC_PREFIX ==
    "Translation failed. All models busy or unavailable. Last error: "

\* lines 188-190: the message after every model failed
error_message(err) ==
    IF Contains429(Str(err)) THEN RATE_LIMIT_MSG ELSE <<GENERIC_PREFIX>> \o Str(err)

\* the tuples translate_text returns (lines 168 and 192)
NoRet == [returned |-> FALSE, success |-> FALSE, text |-> <<>>, error |-> NoneErr]
Success(text) == [returned |-> TRUE, success |-> TRUE, text |-> text, error |-> NoneErr]
Failure(msg)  == [returned |-> TRUE, success |-> FALSE, text |-> <<>>, error |-> msg]

wait_time_from_zero(a) == 2 * a

\* line 175: wait_time = 2 * (attempt + 1)
wait_time(a) == 2 * (a + 1)

RetriesAnyFailure(desc, a) == a < max_retries - 1

\* lines 172-173: the inner handler retries the same model
RetriesRateLimit(desc, a) == Contains429(desc) /\ a < max_retries - 1

HasNextAttemptOffByOne(a) == a < max_retries

\* line 155: the inner loop has another iteration after attempt a
HasNextAttempt(a) == a + 1 < max_retries

\* what render_ui shows for the tuple translate_text returned (lines 309-335)
NoDisplay == [kind |-> "none"]
Rendered(r, text) ==
    IF r.success
    THEN [kind |-> "success", text |-> r.text, source_chars |-> StrLen(text),
          chars |-> StrLen(r.text), words |-> WordCount(r.text)]
    ELSE [kind |-> "error", msg |-> <<CROSS>> \o r.error]

\* translate_text returns r and render_ui renders it
Return(r) ==
    /\ ret' = r
    /\ pc' = "idle"
    /\ display' = Rendered(r, input_text)
    /\ UNCHANGED <<prompt, model_idx, attempt>>

\* the inner loop goes on to its next attempt on the same model
NextAttempt ==
    /\ attempt' = attempt + 1
    /\ UNCHANGED <<pc, prompt, model_idx, ret, display>>

\* the outer loop goes on to the next model, or ends and the call returns
\* failure; err is last_error as the outer handler left it
NextModel(err) ==
    IF model_idx < Len(models_to_try)
    THEN /\ model_idx' = model_idx + 1
         /\ attempt' = 0
         /\ UNCHANGED <<pc, prompt, ret, display>>
    ELSE Return(Failure(error_message(err)))

Called(kind) == calls' = Append(calls, [model |-> models_to_try[model_idx], kind |-> kind])

\* generate_content returns a response with a non-empty text (lines 167-168)
GenerateReturnsText ==
    /\ pc = "translating"
    /\ \E text \in RespTexts :
        /\ Truthy(text)
        /\ Called("text")
        /\ resp_text' = text
        /\ Return(Success(Strip(text)))
    /\ UNCHANGED <<last_error, sleeps, last_raised>>
    /\ UNCHANGED <<api_key, source_lang, target_lang, input_text>>
    /\ UNCHANGED <<valVars, diagVars>>

\* generate_content returns None, or one whose text is empty or absent:
\* the test of line 167 fails and nothing is raised, so the inner loop iterates;
\* after its last iteration the outer loop takes the next model
GenerateReturnsEmpty ==
    /\ pc = "translating"
    /\ \E text \in {NoneText, <<>>} :
        /\ ~Truthy(text)
        /\ Called("empty")
    /\ IF HasNextAttempt(attempt) THEN NextAttempt ELSE NextModel(last_error)
    /\ UNCHANGED <<last_error, sleeps, last_raised, resp_text>>
    /\ UNCHANGED <<api_key, source_lang, target_lang, input_text>>
    /\ UNCHANGED <<valVars, diagVars>>

\* generate_content raises (lines 170-185)
GenerateRaises ==
    /\ pc = "translating"
    /\ \E desc \in ErrDescs :
        /\ Called(IF Contains429(desc) THEN "raise429" ELSE "raise")
        /\ last_raised' = desc
        /\ IF RetriesRateLimit(desc, attempt)
           THEN /\ sleeps' = Append(sleeps, [model |-> models_to_try[model_idx],
                                              secs |-> wait_time(attempt)])
                /\ NextAttempt
                /\ UNCHANGED last_error
           ELSE /\ last_error' = desc
                /\ NextModel(desc)
                /\ UNCHANGED sleeps
    /\ UNCHANGED resp_text
    /\ UNCHANGED <<api_key, source_lang, target_lang, input_text>>
    /\ UNCHANGED <<valVars, diagVars>>

---------------------------------------------------------------------------
(* app.py section 6: render_ui.  Every interaction reruns the script: a   *)
(* changed widget reruns it with translate_button False, which renders no *)
(* result; the locals of an earlier translate_text call are gone.         *)

\* the selections and texts a user makes in this model
UISources == {language_names[1], language_names[2]}
UITargets == {language_names[1], language_names[2], language_names[3]}
UITexts == {<<>>, <<[ch |-> " ", n |-> 1]>>, <<[ch |-> "a", n |-> 1]>>,
            <<[ch |-> "a", n |-> 1], [ch |-> " ", n |-> MAX_TEXT_LEN]>>}

NoCall ==
    /\ pc' = "idle"
    /\ prompt' = NoPrompt
    /\ model_idx' = 1
    /\ attempt' = 0
    /\ last_error' = NoneErr
    /\ ret' = NoRet
    /\ calls' = <<>>
    /\ sleeps' = <<>>
    /\ last_raised' = NoneErr
    /\ resp_text' = NoneText

SelectSource ==
    /\ api_key /\ pc = "idle"
    /\ \E l \in UISources : l # source_lang /\ source_lang' = l
    /\ display' = NoDisplay
    /\ NoCall
    /\ UNCHANGED <<api_key, target_lang, input_text, valVars, diagVars>>

SelectTarget ==
    /\ api_key /\ pc = "idle"
    /\ \E l \in UITargets : l # target_lang /\ target_lang' = l
    /\ display' = NoDisplay
    /\ NoCall
    /\ UNCHANGED <<api_key, source_lang, input_text, valVars, diagVars>>

EnterText ==
    /\ api_key /\ pc = "idle"
    /\ \E t \in UITexts : t # input_text /\ input_text' = t
    /\ display' = NoDisplay
    /\ NoCall
    /\ UNCHANGED <<api_key, source_lang, target_lang, valVars, diagVars>>

ProceedsAlways(v) == TRUE

\* line 297: the translate branch goes on to translate_text
Proceeds(v) == v.is_valid

\* lines 293-307 and translate_text up to its first generate_content call
ClickTranslate ==
    /\ api_key /\ pc = "idle"
    /\ LET v == validate_input(input_text, source_lang, target_lang) IN
        IF ~Proceeds(v)
        THEN /\ display' = [kind |-> "error", msg |-> v.error_message]
             /\ NoCall
        ELSE /\ display' = [kind |-> "spinner"]
             /\ pc' = "translating"
             /\ prompt' = create_translation_prompt(input_text, source_lang, target_lang)
             /\ model_idx' = 1
             /\ attempt' = 0
             /\ last_error' = NoneErr
             /\ ret' = NoRet
             /\ calls' = <<>>
             /\ sleeps' = <<>>
             /\ last_raised' = NoneErr
             /\ resp_text' = NoneText
    /\ UNCHANGED <<api_key, source_lang, target_lang, input_text, valVars, diagVars>>

\* the parts of the state a specification does not run
ValIdle  == v_text = <<>> /\ v_src = PLACEHOLDER /\ v_tgt = PLACEHOLDER /\ v_ret = NoVal
DiagIdle == /\ d_pc = "off" /\ d_remote = <<>> /\ d_pos = 0
            /\ d_error = NoneErr /\ d_file = <<>>
AppIdle  == /\ api_key = FALSE /\ source_lang = PLACEHOLDER /\ target_lang = PLACEHOLDER
            /\ input_text = <<>> /\ display = NoDisplay
            /\ pc = "idle" /\ prompt = NoPrompt /\ model_idx = 1 /\ attempt = 0
            /\ last_error = NoneErr /\ ret = NoRet
            /\ calls = <<>> /\ sleeps = <<>> /\ last_raised = NoneErr /\ resp_text = NoneText

\* main(): initialize_app stops the script when no API key is set; the
\* selectboxes start at index 0, the text area empty
Init ==
    /\ api_key \in BOOLEAN
    /\ source_lang = language_names[1]
    /\ target_lang = language_names[1]
    /\ input_text = <<>>
    /\ display = NoDisplay
    /\ pc = "idle" /\ prompt = NoPrompt /\ model_idx = 1 /\ attempt = 0
    /\ last_error = NoneErr /\ ret = NoRet
    /\ calls = <<>> /\ sleeps = <<>> /\ last_raised = NoneErr /\ resp_text = NoneText
    /\ ValIdle /\ DiagIdle

Next ==
    \/ SelectSource
    \/ SelectTarget
    \/ EnterText
    \/ ClickTranslate
    \/ GenerateReturnsText
    \/ GenerateReturnsEmpty
    \/ GenerateRaises

Spec == Init /\ [][Next]_vars

\* the interaction runs to completion: a call in progress makes its next
\* generate_content call, and the service answers it
FairSpec == Spec /\ WF_vars(GenerateReturnsText \/ GenerateReturnsEmpty \/ GenerateRaises)

---------------------------------------------------------------------------
(* validate_input as a function: the inputs are drawn, then it is applied *)

RunLens  == {1, MAX_TEXT_LEN - 1, MAX_TEXT_LEN, MAX_TEXT_LEN + 1}
ValTexts == {NoneText} \cup TextsOf(MaxRuns, RunLens)
ValLangs == {language_names[i] : i \in 1..NumLangs}

ValInit ==
    /\ v_text \in ValTexts
    /\ v_src \in ValLangs
    /\ v_tgt \in ValLangs
    /\ v_ret = NoVal
    /\ AppIdle /\ DiagIdle

ValidateCall ==
    /\ ~v_ret.called
    /\ v_ret' = Validated(validate_input(v_text, v_src, v_tgt))
    /\ UNCHANGED <<v_text, v_src, v_tgt, uiVars, engVars, obsVars, diagVars>>

ValNext == ValidateCall

ValSpec == ValInit /\ [][ValNext]_vars

---------------------------------------------------------------------------
(* check_models.py *)

HEADER_LINE == <<"Available models:">>
NameLine(name) == <<name>>
ErrorLine(desc) == <<"Error: ">> \o desc

\* what an entry of the listing may be
ModelNames == {"models/a", "models/b"}
MethodSets == {{"generateContent", "countTokens"}, {"embedContent"}}
\* str(e) of the failure the listing raises
DiagErrs   == {E_QUOTA, E_500}
Listings   == UNION {[1..n -> [name : ModelNames,
                               supported_generation_methods : MethodSets]] :
                     n \in 0..MaxModels}

\* models.txt may exist before the script runs
DiagInit ==
    /\ d_pc = "start"
    /\ d_remote \in Listings
    /\ d_pos = 0
    /\ d_error = NoneErr
    /\ d_file \in {<<>>, <<NameLine("stale")>>}
    /\ AppIdle /\ ValIdle

\* lines 9-10: open('models.txt', 'w') truncates the file; the header is written
DiagOpen ==
    /\ d_pc = "start"
    /\ d_file' = <<HEADER_LINE>>
    /\ d_pc' = "listing"
    /\ UNCHANGED <<d_remote, d_pos, d_error, uiVars, engVars, obsVars, valVars>>

\* lines 12-14: the iterator yields the next model
DiagListNext ==
    /\ d_pc = "listing"
    /\ d_pos < Len(d_remote)
    /\ LET m == d_remote[d_pos + 1] IN
        d_file' = IF "generateContent" \in m.supported_generation_methods
                  THEN Append(d_file, NameLine(m.name))
                  ELSE d_file
    /\ d_pos' = d_pos + 1
    /\ UNCHANGED <<d_pc, d_remote, d_error, uiVars, engVars, obsVars, valVars>>

\* lines 15-16: list_models(), or the iterator when asked for its next
\* model, raises
DiagListRaises ==
    /\ d_pc = "listing"
    /\ \E desc \in DiagErrs :
        /\ d_error' = desc
        /\ d_file' = Append(d_file, ErrorLine(desc))
    /\ d_pc' = "done"
    /\ UNCHANGED <<d_remote, d_pos, uiVars, engVars, obsVars, valVars>>

\* the iterator is exhausted and the file is closed
DiagListEnds ==
    /\ d_pc = "listing"
    /\ d_pos = Len(d_remote)
    /\ d_pc' = "done"
    /\ UNCHANGED <<d_remote, d_pos, d_error, d_file, uiVars, engVars, obsVars, valVars>>

DiagNext ==
    \/ DiagOpen
    \/ DiagListNext
    \/ DiagListRaises
    \/ DiagListEnds

DiagSpec == DiagInit /\ [][DiagNext]_vars

---------------------------------------------------------------------------
(* The properties.  The five checks of the validator, whitespace and       *)
(* trimming are stated here on their own, not through validate_input and   *)
(* Strip.                                                                  *)

AllWhitespace(t) == \A i \in 1..Len(t) : IsSpace(t[i].ch)
HasNonSpace(t)   == \E i \in 1..Len(t) : ~IsSpace(t[i].ch)

\* out is raw without its leading and trailing whitespace
Trimmed(raw, out) ==
    IF AllWhitespace(raw) THEN out = <<>>
    ELSE \E i, j \in 1..Len(raw) :
            /\ i <= j
            /\ out = SubSeq(raw, i, j)
            /\ ~IsSpace(raw[i].ch) /\ ~IsSpace(raw[j].ch)
            /\ \A k \in 1..Len(raw) : (k < i \/ k > j) => IsSpace(raw[k].ch)

\* check i of the validator fails on (text, src, tgt)
CheckFails(i, text, src, tgt) ==
    CASE i = 1 -> text = NoneText \/ text = <<>> \/ AllWhitespace(text)
      [] i = 2 -> src = PLACEHOLDER
      [] i = 3 -> tgt = PLACEHOLDER
      [] i = 4 -> src = tgt
      [] i = 5 -> StrLen(text) > MAX_TEXT_LEN

CheckMsg == <<MSG_NO_TEXT, MSG_NO_SRC, MSG_NO_TGT, MSG_SAME, MSG_TOO_LONG>>

FailingChecks(text, src, tgt) == {i \in 1..5 : CheckFails(i, text, src, tgt)}

FirstFailing(text, src, tgt) ==
    CHOOSE i \in FailingChecks(text, src, tgt) :
        \A j \in FailingChecks(text, src, tgt) : i <= j

PassesAllChecks(text, src, tgt) == FailingChecks(text, src, tgt) = {}

\* C5: validate_input returns the message of the first failing check, in the
\* order text / source placeholder / target placeholder / same language /
\* length, and returns valid exactly when no check fails; blank text yields
\* the "enter some text" message whatever the languages are.
C5_FirstFailingCheck ==
    v_ret.called =>
        /\ v_ret.out.is_valid = PassesAllChecks(v_text, v_src, v_tgt)
        /\ v_ret.out.is_valid => v_ret.out.error_message = NoneErr
        /\ ~v_ret.out.is_valid =>
               v_ret.out.error_message = CheckMsg[FirstFailing(v_text, v_src, v_tgt)]
        /\ CheckFails(1, v_text, v_src, v_tgt) => v_ret.out = Invalid(MSG_NO_TEXT)

\* blank text longer than the limit with both languages at the placeholder:
\* all five checks fail and the first one's message is returned
C5_Witness ==
    /\ v_ret.called
    /\ FailingChecks(v_text, v_src, v_tgt) = {1, 2, 3, 4, 5}
    /\ v_ret.out.error_message = MSG_NO_TEXT

\* C6 as claimed: every text longer than 30,000 characters is rejected with
\* the length message, whatever the languages and the text's content are.
C6_Original ==
    (v_ret.called /\ StrLen(v_text) > MAX_TEXT_LEN) =>
        v_ret.out = Invalid(MSG_TOO_LONG)

\* C6 as amended: every text longer than 30,000 characters is rejected, and
\* with the length message exactly when the text is not only whitespace,
\* both languages are selected and they differ.
C6_Amended ==
    (v_ret.called /\ StrLen(v_text) > MAX_TEXT_LEN) =>
        /\ ~v_ret.out.is_valid
        /\ (v_ret.out.error_message = MSG_TOO_LONG) <=>
               (/\ HasNonSpace(v_text)
                /\ v_src # PLACEHOLDER /\ v_tgt # PLACEHOLDER
                /\ v_src # v_tgt)

C6_Witness ==
    /\ v_ret.called
    /\ StrLen(v_text) > MAX_TEXT_LEN
    /\ v_ret.out = Invalid(MSG_TOO_LONG)

---------------------------------------------------------------------------
(* translate_text *)

FirstModel == models_to_try[1]
LastModel  == models_to_try[Len(models_to_try)]

CallsOn(m)  == {i \in 1..Len(calls) : calls[i].model = m}
SleepsOn(m) == {i \in 1..Len(sleeps) : sleeps[i].model = m}
ModelIndex(m) == CHOOSE k \in 1..Len(models_to_try) : models_to_try[k] = m

\* call i is the first call made to its model
FirstOnModel(i) == i = 1 \/ calls[i - 1].model # calls[i].model

\* the first model raised a "429" failure on attempts 1 and 2 and returned a
\* non-empty text on attempt 3
RateLimitedTwiceThenText ==
    /\ Len(calls) >= 3
    /\ calls[1] = [model |-> FirstModel, kind |-> "raise429"]
    /\ calls[2] = [model |-> FirstModel, kind |-> "raise429"]
    /\ calls[3] = [model |-> FirstModel, kind |-> "text"]

TwoBackoffsOnFirstModelOnly ==
    /\ sleeps = <<[model |-> FirstModel, secs |-> 2], [model |-> FirstModel, secs |-> 4]>>
    /\ \A i \in 1..Len(calls) : calls[i].model = FirstModel

\* C1 as claimed, on the responses whose text is more than whitespace: after
\* "429" failures on attempts 1 and 2 of gemini-flash-latest and a non-empty
\* text on attempt 3, translate_text returns success with that text, after
\* exactly two waits of 2 s then 4 s and no call to another model.
C1_Original ==
    (RateLimitedTwiceThenText /\ HasNonSpace(resp_text)) =>
        /\ ret.returned /\ ret.success
        /\ ret.text = resp_text
        /\ TwoBackoffsOnFirstModelOnly

\* C1 as amended: ... translate_text returns success with that text stripped
\* of its leading and trailing whitespace, after exactly two waits of 2 s
\* then 4 s and no call to another model.
C1_Amended ==
    RateLimitedTwiceThenText =>
        /\ ret.returned /\ ret.success
        /\ Trimmed(resp_text, ret.text)
        /\ ret.error = NoneErr
        /\ TwoBackoffsOnFirstModelOnly

C1_Witness ==
    /\ RateLimitedTwiceThenText
    /\ ret.returned /\ ret.success
    /\ HasNonSpace(resp_text) /\ resp_text # ret.text

\* every candidate model raised a failure without "429" on its first attempt
EveryFirstAttemptFails ==
    /\ ret.returned
    /\ \A i \in 1..Len(calls) : FirstOnModel(i) => calls[i].kind = "raise"

\* C2: when every candidate model raises a failure without "429" on its
\* first attempt, translate_text calls each of the four models exactly once,
\* in the order of models_to_try, never waits, and returns failure with the
\* generic message embedding the description of the last model's failure.
C2_EachModelOnce ==
    EveryFirstAttemptFails =>
        /\ Len(calls) = Len(models_to_try)
        /\ \A i \in 1..Len(calls) : calls[i].model = models_to_try[i]
        /\ sleeps = <<>>
        /\ ~ret.success /\ ret.text = <<>>
        /\ ret.error = <<GENERIC_PREFIX>> \o last_raised

\* the four failures end with a description that differs from the first
\* three models'
C2_Witness ==
    /\ EveryFirstAttemptFails
    /\ calls[Len(calls)].model = LastModel
    /\ last_raised = E_NEAR
    /\ ret.error = <<GENERIC_PREFIX>> \o E_NEAR

\* C3: when every model is exhausted, translate_text returns failure, with
\* the rate-limit message if and only if the description of the last failure
\* met during the call contains "429", and otherwise with the generic
\* message embedding that last failure's description.
C3_LastFailureDecides ==
    (ret.returned /\ ~ret.success) =>
        ret.error = IF Contains(Str(last_raised), <<"4", "2", "9">>)
                    THEN RATE_LIMIT_MSG
                    ELSE <<GENERIC_PREFIX>> \o Str(last_raised)

\* C4: after a generate_content call that returned an empty or absent text,
\* no further call is made to the same model.
C4_EmptyAdvances ==
    \A i \in 1..Len(calls) :
        (calls[i].kind = "empty" /\ i < Len(calls)) => calls[i + 1].model # calls[i].model

\* C10: a success carries a non-empty text without leading or trailing
\* whitespace and no error; a failure carries an empty text and a non-empty
\* message.
C10_OutcomeShape ==
    ret.returned =>
        IF ret.success
        THEN /\ ret.text # <<>>
             /\ ~IsSpace(ret.text[1].ch) /\ ~IsSpace(ret.text[Len(ret.text)].ch)
             /\ ret.error = NoneErr
        ELSE /\ ret.text = <<>>
             /\ ret.error # NoneErr /\ ret.error # <<>>

---------------------------------------------------------------------------
(* render_ui and translate_text together *)

\* a step made a generate_content call
MadeCall == Len(calls') > Len(calls)

\* a step in which the translate action ran and its validation failed
ValidationFailed ==
    /\ pc = "idle" /\ pc' = "idle"
    /\ UNCHANGED <<source_lang, target_lang, input_text>>

C7_Step ==
    /\ MadeCall =>
          /\ pc = "translating"
          /\ PassesAllChecks(input_text, source_lang, target_lang)
          /\ UNCHANGED <<source_lang, target_lang, input_text>>
    /\ (pc = "idle" /\ pc' = "translating") =>
          PassesAllChecks(input_text, source_lang, target_lang)
    /\ ValidationFailed =>
          /\ ~PassesAllChecks(input_text, source_lang, target_lang)
          /\ display' = [kind |-> "error",
                         msg |-> CheckMsg[FirstFailing(input_text, source_lang, target_lang)]]
          /\ calls' = <<>>
    /\ pc = "idle" => ~MadeCall

\* C7: a generate_content call is made only within a translate action whose
\* input passed all five checks; a translate action whose validation fails
\* displays the validator's message and makes no call, and an interaction
\* that does not activate the translate action makes none.
C7_CallsOnlyAfterValidation == [][C7_Step]_vars

\* a translate action was refused for identical languages and nothing was called
C7_Witness ==
    /\ pc = "idle" /\ ~ret.returned
    /\ display = [kind |-> "error", msg |-> MSG_SAME]
    /\ source_lang = target_lang
    /\ calls = <<>>

C9_Bounded ==
    /\ \A m \in {models_to_try[k] : k \in 1..Len(models_to_try)} :
          /\ Cardinality(CallsOn(m)) <= 3
          /\ Cardinality(SleepsOn(m)) <= 2
    /\ Len(calls) <= 12
    /\ Len(sleeps) <= 8
    \* a model that was left is never called again
    /\ \A i, j \in 1..Len(calls) :
          i <= j => ModelIndex(calls[i].model) <= ModelIndex(calls[j].model)
    \* each model starts with a fresh attempt counter
    /\ pc = "translating" =>
          /\ attempt = Cardinality(CallsOn(models_to_try[model_idx]))
          /\ \A i \in 1..Len(calls) : ModelIndex(calls[i].model) <= model_idx
    \* what is returned is a Translation Outcome
    /\ ret.returned =>
          /\ ret.success \in BOOLEAN
          /\ ret.success => ret.error = NoneErr
          /\ ~ret.success => ret.error \in {RATE_LIMIT_MSG} \cup
                 {<<GENERIC_PREFIX>> \o Str(e) : e \in ErrDescs \cup {NoneErr}}

\* C9: whatever the remote service does, a call of translate_text returns a
\* Translation Outcome, after at most 3 generation calls and 2 waits per
\* model (12 and 8 in all), never calling again a model it has left, each
\* model starting at attempt 0.
C9_Terminates ==
    /\ []C9_Bounded
    /\ (pc = "translating") ~> (pc = "idle" /\ ret.returned)

\* all twelve calls and all eight waits were made and the call returned
C9_Witness ==
    /\ ret.returned
    /\ Len(calls) = 12
    /\ Len(sleeps) = 8

---------------------------------------------------------------------------
(* check_models.py *)

\* C8: when listing the models fails, at whatever point, models.txt holds the
\* single line "Error: {description}": no header and no model identifier.
C8_ErrorLineOnly ==
    (d_pc = "done" /\ d_error # NoneErr) => d_file = <<ErrorLine(d_error)>>

====
